---- MODULE Spec2Model ----
(***************************************************************************)
(* github-metrics: per-user contribution metrics collected from the GitHub *)
(* REST and search APIs, aggregated into a weighted score and rendered as  *)
(* an HTML table.                                                          *)
(*                                                                         *)
(* The repository holds two builds of the program: src/main.go and         *)
(* src/unnamed/part_000 (the build with per-repository lines and the       *)
(* report re-rendered after every user).  The variable `build` selects the *)
(* one that runs; definitions that differ between the builds take it as a  *)
(* parameter.                                                              *)
(*                                                                         *)
(* Strings that the program splits on "/" (repository identifiers and      *)
(* repository URLs) are represented by their sequence of "/"-separated     *)
(* segments.                                                               *)
(***************************************************************************)
EXTENDS Integers, Sequences, FiniteSets, TLC

VARIABLES
    build,          \* which main package runs: "main.go" or "part_000"
    metric,         \* the metric selector (flag --metric)
    users,          \* the coder list handed to calculateMetrics
    organization,   \* the organization filter (flag --organization), "" when unset
    pc,             \* position of the run
    ui,             \* index into users of the user being processed
    repos,          \* getUserRepositories result for the current user
    ri,             \* index into repos of the repository being processed
    metrics,        \* map[string]UserMetrics of calculateMetrics
    output,         \* contents of the output file: "none" or the rendered rows
    writes,         \* number of times the output file has been created
    last,           \* what the last step did (collector outcomes of the step)
    faults,         \* failure scripts the remote has played so far in this run
    fin,            \* input of the function under check (function-level specs)
    fout            \* its result

vars == <<build, metric, users, organization, pc, ui, repos, ri, metrics, output,
          writes, last, faults, fin, fout>>

\* the variables of the run other than its position
runData == <<build, metric, users, organization, ui, repos, ri, metrics, output,
            writes, last, faults>>

----------------------------------------------------------------------------
(* Bounds of the model *)

\* longest coder list
MaxUsers == 2
\* longest script of consecutive remote failures handed to retryWithBackoff
MaxOuts == 6
\* most pages a paginated query holds
MaxPages == 3
\* most failure scripts the remote plays in one run
MaxFaults == 1
\* most invocations the remote answers before a scripted failure sets in
MaxOkBefore == 11
\* most repositories in a generated per-repository lines map
MaxRepos == 4
\* largest lines count in a generated per-repository lines map
MaxLines == 2

(* Program constants *)

\* attempt ceiling passed to retryWithBackoff at every call site
Attempts == 5
\* HTTP status that retryWithBackoff treats as the rate-limit signal
StatusForbidden == 403
\* entries kept by getTopRepos
TopN == 3
W_Pulls == 250
W_Issues == 50
W_Commits == 5
W_Reviews == 150
W_Msgs == 5

Builds == {"main.go", "part_000"}

----------------------------------------------------------------------------
(* Small helpers *)

Min(a, b) == IF a < b THEN a ELSE b

(* Go evaluates an argument or an assigned expression once and passes its   *)
(* value on.  Only({F(x) : x \in {e}}) is F at the value of e, with e       *)
(* evaluated once.                                                          *)
Only(S) == CHOOSE x \in S : TRUE

RECURSIVE SumSeq(_)
SumSeq(s) == IF s = <<>> THEN 0 ELSE Head(s) + SumSeq(Tail(s))

RECURSIVE Flatten(_)
Flatten(ss) == IF ss = <<>> THEN <<>> ELSE Head(ss) \o Flatten(Tail(ss))

SeqsUpTo(S, n) == UNION {[1..k -> S] : k \in 0..n}

Range(s) == {s[i] : i \in DOMAIN s}

Perms(S) == {s \in [1..Cardinality(S) -> S] : Range(s) = S}

----------------------------------------------------------------------------
(* The remote call handed to retryWithBackoff.                              *)
(* `outs` scripts the failures of the remote: outs[k] is how the k-th       *)
(* invocation of fn from now on ends; once the script is used up the remote *)
(* answers.  "ok": err == nil.  "403": error with a response of status 403. *)
(* "500": error with a response of another status.  "noresp": error with a  *)
(* nil response (transport failure).                                        *)

Kinds == {"ok", "403", "500", "noresp"}

fnOutcome(outs) == IF outs = <<>> THEN "ok" ELSE Head(outs)

fnRest(outs) == IF outs = <<>> THEN <<>> ELSE Tail(outs)

\* resp of a failed invocation: nil (0) or its status code
respStatus(kind) ==
    CASE kind = "403" -> StatusForbidden
      [] kind = "500" -> 500
      [] OTHER -> 0

(* retryWithBackoff: the loop from the iteration of state st on.  st.i is   *)
(* the loop counter, st.outs the remote's script, st.calls the number of    *)
(* invocations of fn made so far, st.err the error of the last one (0 is    *)
(* nil, k > 0 is the error returned by the k-th invocation), st.trace the   *)
(* invocations and sleeps in order.  The result tells whether a result was  *)
(* returned (ok), the error, the remaining script and the trace.            *)
RECURSIVE retryLoop(_, _, _)
retryLoop(attempts, delay, st) ==
    Only({
        IF s.i >= attempts
        THEN [ok |-> FALSE, result |-> "nil", err |-> s.err, calls |-> s.calls,
              rest |-> s.outs, trace |-> s.trace]
        ELSE LET kind == fnOutcome(s.outs)
                 n == s.calls + 1
                 called == Append(s.trace, [ev |-> "call", n |-> n, kind |-> kind])
             IN IF kind = "ok"
                THEN [ok |-> TRUE, result |-> "value", err |-> 0, calls |-> n,
                      rest |-> fnRest(s.outs), trace |-> called]
                ELSE LET slept ==
                            IF respStatus(kind) # 0 /\ respStatus(kind) = StatusForbidden
                            THEN Append(called, [ev |-> "sleep", n |-> n, buffer |-> delay])
                            ELSE called
                     IN retryLoop(attempts, delay,
                                  [i |-> s.i + 1, outs |-> fnRest(s.outs), calls |-> n,
                                   err |-> n, trace |-> slept])
      : s \in {st}})

retryStart(outs) == [i |-> 0, outs |-> outs, calls |-> 0, err |-> 0, trace |-> <<>>]

retryWithBackoff_oneMoreAttempt(attempts, delay, outs) ==
    retryLoop(attempts + 1, delay, retryStart(outs))

\* retryWithBackoff giving up at a rate-limit response instead of pausing
retryWithBackoff_rateLimitIsError(attempts, delay, outs) ==
    IF fnOutcome(outs) = "403"
    THEN retryLoop(1, delay, retryStart(outs))
    ELSE retryLoop(attempts, delay, retryStart(outs))

retryWithBackoff(attempts, delay, outs) ==
    retryLoop(attempts, delay, retryStart(outs))

----------------------------------------------------------------------------
(* The remote's paginated answers.  A query result is a sequence of pages,  *)
(* a page a sequence of items.  A request carries opts.Page (0: unset, the  *)
(* first page); the response carries the items of that page and NextPage,   *)
(* which is 0 on the last page.  A query with no results answers the first  *)
(* request with an empty page and NextPage 0.                               *)

pageNo(p) == IF p = 0 THEN 1 ELSE p

respItems(pages, p) == IF pageNo(p) \in DOMAIN pages THEN pages[pageNo(p)] ELSE <<>>

respNextPage(pages, p) == IF pageNo(p) < Len(pages) THEN pageNo(p) + 1 ELSE 0

\* delay argument of every retryWithBackoff call site: time.Second, in seconds
RetryDelay == 1

(* A commit of the remote: sha, author (login, "" when commit.Author is     *)
(* nil), parents (how many; a nil slice has none), files (the per-file      *)
(* [additions, changes] of the GetCommit detail) and detailErr (the detail  *)
(* request for this commit fails when getHoC makes it).                     *)

isMergeCommit_noParentCheck(commit) == FALSE

isMergeCommit(commit) == commit.parents > 1

\* the filter shared by getCommits and getHoC
countsFor(commit, user) ==
    commit.author # "" /\ commit.author = user /\ ~isMergeCommit(commit)

RECURSIVE commitsOfPage(_, _)
\* what getCommits adds for one page of commits
commitsOfPage(items, user) ==
    IF items = <<>> THEN 0
    ELSE (IF countsFor(Head(items), user) THEN 1 ELSE 0)
         + commitsOfPage(Tail(items), user)

(* Result of a collector: value (the returned metric), requests (page       *)
(* requests issued, i.e. calls of retryWithBackoff), calls (invocations of  *)
(* the remote operation), exhausted (a page request failed Attempts times), *)
(* panicked (the collector ended in a runtime panic), rest (the remote's    *)
(* remaining failure script).                                               *)
Ret(value, requests, calls, exhausted, panicked, rest) ==
    [value |-> value, requests |-> requests, calls |-> calls,
     exhausted |-> exhausted, panicked |-> panicked, rest |-> rest]

\* the state of a collector's loop before its first page request
loopStart(acc, outs) == [page |-> 0, acc |-> acc, outs |-> outs, requests |-> 0, calls |-> 0]

RECURSIVE getCommitsLoop(_, _, _)
getCommitsLoop(user, pages, st) ==
    Only({ Only({
        LET items == respItems(pages, s.page)
            commits == s.acc + commitsOfPage(items, user)
            next == respNextPage(pages, s.page)
            requests == s.requests + 1
            calls == s.calls + r.calls
        IN IF ~r.ok
           THEN Ret(s.acc, requests, calls, TRUE, FALSE, r.rest)
           ELSE IF next = 0
                THEN Ret(commits, requests, calls, FALSE, FALSE, r.rest)
                ELSE getCommitsLoop(user, pages,
                         [page |-> next, acc |-> commits, outs |-> r.rest,
                          requests |-> requests, calls |-> calls])
      : r \in {retryWithBackoff(Attempts, RetryDelay, s.outs)} }) : s \in {st} })

\* getCommits leaving its loop after the first page whatever NextPage says
getCommits_firstPageOnly(user, pages, outs) ==
    getCommitsLoop(user, SubSeq(pages, 1, Min(1, Len(pages))), loopStart(0, outs))

\* getCommits returning 0 when a page request fails after all retries
getCommits_zeroOnError(user, pages, outs) ==
    Only({ IF r.exhausted THEN [r EXCEPT !.value = 0] ELSE r
         : r \in {getCommitsLoop(user, pages, loopStart(0, outs))} })

getCommits(user, pages, outs) == getCommitsLoop(user, pages, loopStart(0, outs))

hocOfFile_additionsOnly(file) == file.additions

\* what getHoC adds for one file of a commit's detail
hocOfFile(file) == file.additions + file.changes

RECURSIVE hocOfFiles(_)
hocOfFiles(files) ==
    IF files = <<>> THEN 0 ELSE hocOfFile(Head(files)) + hocOfFiles(Tail(files))

\* what getHoC adds for one commit of a page
hocOfCommit(commit, user) ==
    IF countsFor(commit, user)
    THEN IF commit.detailErr THEN 0 ELSE hocOfFiles(commit.files)
    ELSE 0

RECURSIVE hocOfPage(_, _)
hocOfPage(items, user) ==
    IF items = <<>> THEN 0
    ELSE hocOfCommit(Head(items), user) + hocOfPage(Tail(items), user)

RECURSIVE getHoCLoop(_, _, _)
getHoCLoop(user, pages, st) ==
    Only({ Only({
        LET items == respItems(pages, s.page)
            hoc == s.acc + hocOfPage(items, user)
            next == respNextPage(pages, s.page)
            requests == s.requests + 1
            calls == s.calls + r.calls
        IN IF ~r.ok
           THEN Ret(s.acc, requests, calls, TRUE, FALSE, r.rest)
           ELSE IF next = 0
                THEN Ret(hoc, requests, calls, FALSE, FALSE, r.rest)
                ELSE getHoCLoop(user, pages,
                         [page |-> next, acc |-> hoc, outs |-> r.rest,
                          requests |-> requests, calls |-> calls])
      : r \in {retryWithBackoff(Attempts, RetryDelay, s.outs)} }) : s \in {st} })

getHoC(user, pages, outs) == getHoCLoop(user, pages, loopStart(0, outs))

----------------------------------------------------------------------------
(* An issue of the remote (Issues.ListByRepo and Search.Issues return pull  *)
(* requests as issues): pr (IsPullRequest), created and closed (hours on    *)
(* the remote's clock, NilTime when the timestamp is nil), comments, url    *)
(* (the segments of RepositoryURL).                                         *)

NilTime == -1

(* float64 values that are not whole numbers (LcP) are kept as fractions    *)
(* [n, d] in lowest terms, d > 0.                                           *)
RECURSIVE GCD(_, _)
GCD(a, b) == IF b = 0 THEN a ELSE GCD(b, a % b)

Frac(n, d) == LET g == GCD(n, d) IN IF n = 0 THEN [n |-> 0, d |-> 1]
                                    ELSE [n |-> n \div g, d |-> d \div g]

FracAdd(x, y) == Frac(x.n * y.d + y.n * x.d, x.d * y.d)

FracZero == [n |-> 0, d |-> 1]

RECURSIVE issuesOfPage(_)
\* what getIssues adds for one page
issuesOfPage(items) ==
    IF items = <<>> THEN 0
    ELSE (IF ~Head(items).pr THEN 1 ELSE 0) + issuesOfPage(Tail(items))

RECURSIVE getIssuesLoop(_, _)
getIssuesLoop(pages, st) ==
    Only({ Only({
        LET items == respItems(pages, s.page)
            issues == s.acc + issuesOfPage(items)
            next == respNextPage(pages, s.page)
            requests == s.requests + 1
            calls == s.calls + r.calls
        IN IF ~r.ok
           THEN Ret(s.acc, requests, calls, TRUE, FALSE, r.rest)
           ELSE IF next = 0
                THEN Ret(issues, requests, calls, FALSE, FALSE, r.rest)
                ELSE getIssuesLoop(pages,
                         [page |-> next, acc |-> issues, outs |-> r.rest,
                          requests |-> requests, calls |-> calls])
      : r \in {retryWithBackoff(Attempts, RetryDelay, s.outs)} }) : s \in {st} })

getIssues(pages, outs) == getIssuesLoop(pages, loopStart(0, outs))

\* the pull requests getLcP takes into its average
lcpCounts(issue) == issue.pr /\ issue.created # NilTime /\ issue.closed # NilTime

RECURSIVE lcpTimeOfPage(_)
lcpTimeOfPage(items) ==
    IF items = <<>> THEN 0
    ELSE (IF lcpCounts(Head(items)) THEN Head(items).closed - Head(items).created ELSE 0)
         + lcpTimeOfPage(Tail(items))

RECURSIVE lcpCountOfPage(_)
lcpCountOfPage(items) ==
    IF items = <<>> THEN 0
    ELSE (IF lcpCounts(Head(items)) THEN 1 ELSE 0) + lcpCountOfPage(Tail(items))

RECURSIVE getLcPLoop(_, _)
getLcPLoop(pages, st) ==
    Only({ Only({
        LET items == respItems(pages, s.page)
            totalTime == s.acc.totalTime + lcpTimeOfPage(items)
            count == s.acc.count + lcpCountOfPage(items)
            next == respNextPage(pages, s.page)
            requests == s.requests + 1
            calls == s.calls + r.calls
        IN IF ~r.ok
           THEN Ret(FracZero, requests, calls, TRUE, FALSE, r.rest)
           ELSE IF next = 0
                THEN Ret(IF count = 0 THEN FracZero ELSE Frac(totalTime, count), requests, calls, FALSE, FALSE, r.rest)
                ELSE getLcPLoop(pages,
                         [page |-> next, acc |-> [totalTime |-> totalTime, count |-> count], outs |-> r.rest,
                          requests |-> requests, calls |-> calls])
      : r \in {retryWithBackoff(Attempts, RetryDelay, s.outs)} }) : s \in {st} })

getLcP(pages, outs) == getLcPLoop(pages, loopStart([totalTime |-> 0, count |-> 0], outs))

RECURSIVE msgsOfPage(_)
\* what getMsgs adds for one page
msgsOfPage(items) ==
    IF items = <<>> THEN 0 ELSE Head(items).comments + msgsOfPage(Tail(items))

RECURSIVE getMsgsLoop(_, _)
getMsgsLoop(pages, st) ==
    Only({ Only({
        LET items == respItems(pages, s.page)
            msgs == s.acc + msgsOfPage(items)
            next == respNextPage(pages, s.page)
            requests == s.requests + 1
            calls == s.calls + r.calls
        IN IF ~r.ok
           THEN Ret(s.acc, requests, calls, TRUE, FALSE, r.rest)
           ELSE IF next = 0
                THEN Ret(msgs, requests, calls, FALSE, FALSE, r.rest)
                ELSE getMsgsLoop(pages,
                         [page |-> next, acc |-> msgs, outs |-> r.rest,
                          requests |-> requests, calls |-> calls])
      : r \in {retryWithBackoff(Attempts, RetryDelay, s.outs)} }) : s \in {st} })

getMsgs(pages, outs) == getMsgsLoop(pages, loopStart(0, outs))

RECURSIVE pullsOfPage(_)
\* what getPulls adds for one page
pullsOfPage(items) ==
    IF items = <<>> THEN 0
    ELSE (IF Head(items).pr /\ Head(items).closed # NilTime THEN 1 ELSE 0)
         + pullsOfPage(Tail(items))

RECURSIVE getPullsLoop(_, _)
getPullsLoop(pages, st) ==
    Only({ Only({
        LET items == respItems(pages, s.page)
            pulls == s.acc + pullsOfPage(items)
            next == respNextPage(pages, s.page)
            requests == s.requests + 1
            calls == s.calls + r.calls
        IN IF ~r.ok
           THEN Ret(s.acc, requests, calls, TRUE, FALSE, r.rest)
           ELSE IF next = 0
                THEN Ret(pulls, requests, calls, FALSE, FALSE, r.rest)
                ELSE getPullsLoop(pages,
                         [page |-> next, acc |-> pulls, outs |-> r.rest,
                          requests |-> requests, calls |-> calls])
      : r \in {retryWithBackoff(Attempts, RetryDelay, s.outs)} }) : s \in {st} })

getPulls(pages, outs) == getPullsLoop(pages, loopStart(0, outs))

(* getReviews type-asserts result to the search result type before it looks *)
(* at err: when retryWithBackoff returns the nil result of an exhausted     *)
(* request, the single-value type assertion on a nil interface panics.      *)
RECURSIVE getReviewsLoop(_, _)
getReviewsLoop(pages, st) ==
    Only({ Only({
        LET items == respItems(pages, s.page)
            reviewsCount == s.acc + Len(items)
            next == respNextPage(pages, s.page)
            requests == s.requests + 1
            calls == s.calls + r.calls
        IN IF r.result = "nil"
           THEN Ret(s.acc, requests, calls, TRUE, TRUE, r.rest)
           ELSE IF next = 0
                THEN Ret(reviewsCount, requests, calls, FALSE, FALSE, r.rest)
                ELSE getReviewsLoop(pages,
                         [page |-> next, acc |-> reviewsCount, outs |-> r.rest,
                          requests |-> requests, calls |-> calls])
      : r \in {retryWithBackoff(Attempts, RetryDelay, s.outs)} }) : s \in {st} })

getReviews(pages, outs) == getReviewsLoop(pages, loopStart(0, outs))

----------------------------------------------------------------------------
(* Function-level specifications leave the run where it has not started.    *)

RunIdle ==
    /\ build = "part_000"
    /\ metric = "all"
    /\ users = <<>>
    /\ organization = ""
    /\ ui = 0
    /\ repos = <<>>
    /\ ri = 0
    /\ metrics = <<>>
    /\ output = <<>>
    /\ writes = 0
    /\ last = <<>>
    /\ faults = 0

(* SpecRetry: one call of retryWithBackoff, as the collectors make it,      *)
(* against every failure script of the remote up to MaxOuts invocations.    *)
(* fin.delay is the value of the -delay flag (seconds) the run was          *)
(* configured with.                                                         *)

\* values of the -delay flag: a configured one, the flag's default
DelaySettings == {5, 30}

InitRetry ==
    /\ RunIdle
    /\ pc = "call"
    /\ fin \in [outs : SeqsUpTo(Kinds, MaxOuts), delay : DelaySettings]
    /\ fout = <<>>

RetryCall ==
    /\ pc = "call"
    /\ fout' = retryWithBackoff(Attempts, RetryDelay, fin.outs)
    /\ pc' = "returned"
    /\ UNCHANGED <<runData, fin>>

NextRetry == RetryCall

SpecRetry == InitRetry /\ [][NextRetry]_vars

(* The first invocation the script lets succeed (the remote answers once    *)
(* the script is used up).                                                  *)
FirstOk(outs) ==
    CHOOSE k \in 1..(Len(outs) + 1) :
        /\ k \in DOMAIN outs => outs[k] = "ok"
        /\ \A j \in 1..(k - 1) : outs[j] # "ok"

CallsOf(trace) == Cardinality({i \in DOMAIN trace : trace[i].ev = "call"})

\* C4: retryWithBackoff invokes the operation at most 5 times; it returns the
\* result of the first successful invocation and invokes nothing after it; when
\* all 5 invocations fail it returns the error of the 5th and no result.
C4_RetryCeiling ==
    pc = "returned" =>
        LET k == FirstOk(fin.outs) IN
        /\ fout.calls <= 5
        /\ CallsOf(fout.trace) = fout.calls
        /\ k <= 5 => /\ fout.ok /\ fout.result = "value" /\ fout.err = 0
                     /\ fout.calls = k
                     /\ fout.rest = SubSeq(fin.outs, k + 1, Len(fin.outs))
        /\ k > 5 => /\ ~fout.ok /\ fout.result = "nil"
                    /\ fout.calls = 5 /\ fout.err = 5
                    /\ fout.rest = SubSeq(fin.outs, 6, Len(fin.outs))

\* C4 witness: a script whose first five invocations all fail, in different ways
C4_Witness ==
    /\ pc = "returned"
    /\ Len(fin.outs) = 6
    /\ SubSeq(fin.outs, 1, 5) = <<"403", "500", "noresp", "500", "403">>
    /\ fin.outs[6] = "ok"
    /\ ~fout.ok
    /\ fout.calls = 5

----------------------------------------------------------------------------
(* SpecCollect: one call of one collector for user "alice" against every    *)
(* query result of up to MaxPages pages drawn from the page contents below, *)
(* and every failure script of the shape "k invocations answered, then j    *)
(* failures of one kind".                                                   *)

Collectors == {"commits", "hoc", "issues", "lcp", "msgs", "pulls", "reviews"}

Commit(sha, author, parents, files, detailErr) ==
    [sha |-> sha, author |-> author, parents |-> parents, files |-> files,
     detailErr |-> detailErr]

File(additions, changes) == [additions |-> additions, changes |-> changes]

Issue(pr, created, closed, comments, url) ==
    [pr |-> pr, created |-> created, closed |-> closed, comments |-> comments,
     url |-> url]

RepoURL(owner, name) == <<"https:", "", "api.github.com", "repos", owner, name>>

CommitPageChoices ==
    { <<>>,
      << Commit("c1", "alice", 1, <<File(1, 2)>>, FALSE),
         Commit("c2", "alice", 2, <<File(10, 20)>>, FALSE),
         Commit("c3", "bob", 1, <<File(100, 200)>>, FALSE) >>,
      << Commit("c4", "alice", 0, <<File(3, 3), File(0, 4)>>, FALSE),
         Commit("c5", "", 1, <<File(1000, 1000)>>, FALSE),
         Commit("c6", "alice", 1, <<File(50, 50)>>, TRUE),
         Commit("c7", "alice", 3, <<File(7, 7)>>, FALSE) >> }

IssuePageChoices ==
    { <<>>,
      << Issue(FALSE, 0, NilTime, 1, RepoURL("org", "repo")),
         Issue(TRUE, 0, 10, 2, RepoURL("org", "repo")) >>,
      << Issue(TRUE, 5, NilTime, 4, RepoURL("org", "repo")),
         Issue(TRUE, NilTime, 7, 0, RepoURL("org", "repo")),
         Issue(TRUE, 2, 5, 8, RepoURL("org", "repo")) >> }

Rep(x, n) == [i \in 1..n |-> x]

FailKinds == Kinds \ {"ok"}

\* k invocations answered, then j failures of one kind
Scripts(maxOk) ==
    {Rep("ok", k) \o Rep(kind, j) : k \in 0..maxOk, j \in 0..Attempts, kind \in FailKinds}

PageChoices(c) == IF c \in {"commits", "hoc"} THEN CommitPageChoices ELSE IssuePageChoices

\* the collector named c, called for `user` on a repository whose query holds `pages`
collect(c, user, pages, outs) ==
    CASE c = "commits" -> getCommits(user, pages, outs)
      [] c = "hoc" -> getHoC(user, pages, outs)
      [] c = "issues" -> getIssues(pages, outs)
      [] c = "lcp" -> getLcP(pages, outs)
      [] c = "msgs" -> getMsgs(pages, outs)
      [] c = "pulls" -> getPulls(pages, outs)
      [] c = "reviews" -> getReviews(pages, outs)

InitCollect ==
    /\ RunIdle
    /\ pc = "call"
    /\ \E c \in Collectors :
         fin \in [c : {c}, user : {"alice"}, pages : SeqsUpTo(PageChoices(c), MaxPages),
                  outs : Scripts(MaxPages)]
    /\ fout = <<>>

CollectCall ==
    /\ pc = "call"
    /\ fout' = collect(fin.c, fin.user, fin.pages, fin.outs)
    /\ pc' = "returned"
    /\ UNCHANGED <<runData, fin>>

NextCollect == CollectCall

SpecCollect == InitCollect /\ [][NextCollect]_vars

\* pages whose items the collector has reduced when it returns
FetchedPages ==
    LET n == IF fout.exhausted THEN fout.requests - 1 ELSE fout.requests
    IN SubSeq(fin.pages, 1, Min(n, Len(fin.pages)))

FetchedItems == Flatten(FetchedPages)

LinesOf(commit) == SumSeq([i \in DOMAIN commit.files |-> hocOfFile(commit.files[i])])

\* C5 (as stated): with N pages of results and no page request failing, a
\* collector issues exactly N page requests, for every N >= 0.
C5_ExactlyNRequests ==
    (pc = "returned" /\ ~fout.exhausted) => fout.requests = Len(fin.pages)

\* C5 (amended): with N >= 1 pages and no page request failing, a collector
\* issues exactly N page requests and stops; with no results (N = 0) it issues
\* exactly one page request and returns the zero value of its metric without error.
C5_PageRequests ==
    (pc = "returned" /\ ~fout.exhausted) =>
        /\ Len(fin.pages) >= 1 => fout.requests = Len(fin.pages)
        /\ Len(fin.pages) = 0 => fout.requests = 1
        /\ FetchedItems = <<>> =>
               /\ fout.value = (IF fin.c = "lcp" THEN FracZero ELSE 0)
               /\ ~fout.panicked

\* C5 witness: a three-page result read to its end through transient failures
C5_Witness ==
    /\ pc = "returned"
    /\ fin.c = "commits"
    /\ Len(fin.pages) = 3
    /\ fin.outs = <<"ok", "403", "403">>
    /\ ~fout.exhausted
    /\ fout.requests = 3
    /\ fout.calls = 5

\* C7: getCommits counts, and getHoC adds the lines of, exactly the fetched
\* commits that are authored by the user and have at most one parent; a merge
\* commit (more than one parent) never contributes.
C7_NoMergeCommits ==
    (pc = "returned" /\ fin.c \in {"commits", "hoc"}) =>
        LET items == FetchedItems
            mine == {i \in DOMAIN items :
                        items[i].author = fin.user /\ items[i].parents <= 1}
        IN /\ fin.c = "commits" => fout.value = Cardinality(mine)
           /\ fin.c = "hoc" =>
                fout.value = SumSeq([i \in DOMAIN items |->
                                 IF i \in mine /\ ~items[i].detailErr
                                 THEN LinesOf(items[i]) ELSE 0])

\* C7 witness: pages mixing merge and non-merge commits of the user were reduced
C7_Witness ==
    /\ pc = "returned"
    /\ fin.c = "hoc"
    /\ \E i, j \in DOMAIN FetchedItems :
          /\ FetchedItems[i].author = fin.user /\ FetchedItems[i].parents > 1
          /\ FetchedItems[j].author = fin.user /\ FetchedItems[j].parents = 1
    /\ fout.value > 0

----------------------------------------------------------------------------
(* Repository identifiers                                                   *)

\* the empty string, as the sequence of its "/"-separated segments
EmptyStr == <<"">>

\* parseRepoURL: the last two segments of the URL, joined by "/"
parseRepoURL(repoURL) ==
    IF Len(repoURL) < 2 THEN EmptyStr
    ELSE <<repoURL[Len(repoURL) - 1], repoURL[Len(repoURL)]>>

\* parseRepo: owner and name, or two empty strings
parseRepo(repo) == IF Len(repo) # 2 THEN <<"", "">> ELSE <<repo[1], repo[2]>>

\* strings.HasPrefix(repoFullName, org + "/"), for an org without "/" in it
hasOrgPrefix(repoFullName, org) ==
    /\ Len(repoFullName) >= 2
    /\ repoFullName[1] = org

\* the test without the organization condition
keepsRepo_anyOwner(issue, org) ==
    /\ issue.pr
    /\ parseRepoURL(issue.url) # EmptyStr

\* the test that lets a search result's repository into reposMap
keepsRepo(issue, org) ==
    /\ issue.pr
    /\ parseRepoURL(issue.url) # EmptyStr
    /\ (org = "" \/ hasOrgPrefix(parseRepoURL(issue.url), org))

reposOfPage(items, org) ==
    {parseRepoURL(items[i].url) : i \in {j \in DOMAIN items : keepsRepo(items[j], org)}}

(* One of the three search loops of getUserRepositories, from the state st  *)
(* on: st.page is opts.Page, st.reposMap the map so far, st.outs the        *)
(* remote's failure script.  Returns the state the loop leaves behind.      *)
RECURSIVE searchLoop(_, _, _)
searchLoop(pages, org, st) ==
    Only({ Only({
        LET found == reposOfPage(respItems(pages, s.page), org)
            next == respNextPage(pages, s.page)
        IN IF ~r.ok
           THEN [s EXCEPT !.outs = r.rest, !.exhausted = TRUE]
           ELSE IF next = 0
                THEN [s EXCEPT !.reposMap = @ \cup found, !.outs = r.rest]
                ELSE searchLoop(pages, org,
                         [s EXCEPT !.page = next, !.reposMap = @ \cup found,
                                   !.outs = r.rest])
      : r \in {retryWithBackoff(Attempts, RetryDelay, s.outs)} }) : s \in {st} })

(* getUserRepositories: the authored, commented and reviewed queries in     *)
(* turn.  The second query gets fresh search options; the third reuses the  *)
(* options of the second, Page included.  The result is the set of keys of  *)
(* reposMap; the caller sees them in map iteration order.                   *)
getUserRepositories(q, org, outs) ==
    Only({ Only({ Only({
        [repos |-> r.reposMap, rest |-> r.outs, exhausted |-> r.exhausted]
      : r \in {searchLoop(q.reviewed, org, c)} })
      : c \in {searchLoop(q.commented, org, [a EXCEPT !.page = 0])} })
      : a \in {searchLoop(q.authored, org,
                   [page |-> 0, reposMap |-> {}, outs |-> outs, exhausted |-> FALSE])} })

\* a slice whose elements are those of order, each appended a second time
reposList_twice(reposMap, order) == order \o order

(* The conversion of reposMap to the returned slice: the range over the map *)
(* appends each key once; order is the order the range yields the keys in.  *)
reposList(reposMap, order) == [i \in 1..Cardinality(reposMap) |-> order[i]]

----------------------------------------------------------------------------
(* The aggregator                                                           *)

EmptyMap == [x \in {} |-> 0]

\* the zero UserMetrics (what metrics[user] yields for a user without entry)
ZeroMetrics ==
    [Commits |-> 0, HoC |-> 0, Issues |-> 0, LcP |-> FracZero, Msgs |-> 0,
     Pulls |-> 0, Reviews |-> 0, Score |-> 0, Repos |-> EmptyMap]

calculateScore_noCommits(m) ==
    m.HoC + m.Pulls * W_Pulls + m.Issues * W_Issues + m.Reviews * W_Reviews
    + m.Msgs * W_Msgs

calculateScore(m) ==
    m.HoC + m.Pulls * W_Pulls + m.Issues * W_Issues + m.Commits * W_Commits
    + m.Reviews * W_Reviews + m.Msgs * W_Msgs

\* the merge assigning the update's lines where the code adds them
mergeRepos_assign(into, from) ==
    [k \in DOMAIN into \cup DOMAIN from |->
        IF k \in DOMAIN from THEN from[k] ELSE into[k]]

mergeRepos(into, from) ==
    [k \in DOMAIN into \cup DOMAIN from |->
        (IF k \in DOMAIN into THEN into[k] ELSE 0)
        + (IF k \in DOMAIN from THEN from[k] ELSE 0)]

\* updateUserMetrics assigning the update's counts where the code adds them
updateUserMetrics_assign(b, m, update) ==
    IF b = "part_000"
    THEN [update EXCEPT !.Repos = mergeRepos(m.Repos, @),
                        !.Score = calculateScore(update)]
    ELSE [update EXCEPT !.Score = m.Score + @]

\* updateUserMetrics of the build b
updateUserMetrics(b, m, update) ==
    LET summed == [m EXCEPT !.Commits = @ + update.Commits,
                            !.HoC = @ + update.HoC,
                            !.Issues = @ + update.Issues,
                            !.LcP = FracAdd(@, update.LcP),
                            !.Msgs = @ + update.Msgs,
                            !.Pulls = @ + update.Pulls,
                            !.Reviews = @ + update.Reviews]
    IN IF b = "part_000"
       THEN LET merged == [summed EXCEPT !.Repos = mergeRepos(@, update.Repos)]
            IN [merged EXCEPT !.Score = calculateScore(merged)]
       ELSE [summed EXCEPT !.Score = @ + update.Score]

\* metrics[user] of a Go map: the zero value when the key is absent
entryOf(m, user) == IF user \in DOMAIN m THEN m[user] ELSE ZeroMetrics

\* metrics[user] = v
withEntry(m, user, v) == [u \in DOMAIN m \cup {user} |-> IF u = user THEN v ELSE m[u]]

----------------------------------------------------------------------------
(* The remote of the run-level specification: three users, three            *)
(* repositories.  OrgRepo holds the end-to-end scenario of the              *)
(* specification for alice: 3 non-merge commits whose files total 40        *)
(* additions and 50 changes, one merged pull request, nothing else.         *)

OrgRepo == <<"org", "repo">>
OrgLib == <<"org", "lib">>
ExtTool == <<"ext", "tool">>

UserNames == {"alice", "bob", "carol"}

PR(created, closed, comments, repo) == Issue(TRUE, created, closed, comments, RepoURL(repo[1], repo[2]))

PlainIssue(created, repo) == Issue(FALSE, created, NilTime, 1, RepoURL(repo[1], repo[2]))

\* the discovery queries of a user: authored, commented-on, reviewed
searchOf(user) ==
    CASE user = "alice" ->
           [authored |-> << <<PR(0, 12, 0, OrgRepo)>> >>,
            commented |-> <<>>,
            reviewed |-> <<>>]
      [] user = "bob" ->
           [authored |-> << <<PR(1, 4, 3, OrgLib), PlainIssue(2, ExtTool)>>,
                            <<PR(3, NilTime, 1, OrgLib)>> >>,
            commented |-> << <<PR(1, 4, 3, OrgLib)>> >>,
            reviewed |-> << <<PR(0, 12, 2, OrgRepo), PR(5, 6, 0, ExtTool)>> >>]
      [] OTHER ->
           [authored |-> <<>>, commented |-> <<>>, reviewed |-> <<>>]

\* Repositories.ListCommits of a repository
commitsOf(repo) ==
    CASE repo = OrgRepo ->
           << << Commit("a1", "alice", 1, <<File(20, 25)>>, FALSE),
                 Commit("a2", "alice", 1, <<File(10, 10), File(0, 5)>>, FALSE),
                 Commit("a3", "alice", 0, <<File(10, 10)>>, FALSE) >> >>
      [] repo = OrgLib ->
           << << Commit("b1", "bob", 1, <<File(3, 4)>>, FALSE),
                 Commit("b2", "alice", 2, <<File(5, 6)>>, FALSE),
                 Commit("b3", "bob", 1, <<File(30, 30)>>, TRUE) >>,
              << Commit("b4", "bob", 2, <<File(8, 9)>>, FALSE),
                 Commit("b5", "", 1, <<File(70, 70)>>, FALSE),
                 Commit("b6", "bob", 0, <<File(1, 2)>>, FALSE) >> >>
      [] OTHER -> <<>>

\* Issues.ListByRepo with Creator: user (getIssues)
issuesOf(user, repo) ==
    CASE user = "alice" /\ repo = OrgRepo -> << <<PR(0, 12, 0, OrgRepo)>> >>
      [] user = "bob" /\ repo = OrgLib ->
           << <<PlainIssue(1, OrgLib), PR(1, 4, 3, OrgLib)>>,
              <<PlainIssue(2, OrgLib), PR(3, NilTime, 1, OrgLib)>> >>
      [] OTHER -> <<>>

\* Issues.ListByRepo with Creator: user, State: "closed" (getLcP)
closedOf(user, repo) ==
    CASE user = "alice" /\ repo = OrgRepo -> << <<PR(0, 12, 0, OrgRepo)>> >>
      [] user = "bob" /\ repo = OrgLib ->
           << <<PR(1, 4, 3, OrgLib)>>, <<PR(2, 6, 0, OrgLib), PR(NilTime, 9, 0, OrgLib)>> >>
      [] OTHER -> <<>>

\* Search.Issues "is:pr commenter:user" (getMsgs)
msgsOf(user, repo) ==
    CASE user = "bob" /\ repo = OrgLib ->
           << <<PR(1, 4, 3, OrgLib)>>, <<PR(3, NilTime, 1, OrgLib)>> >>
      [] user = "bob" /\ repo = OrgRepo -> << <<PR(0, 12, 2, OrgRepo)>> >>
      [] OTHER -> <<>>

\* Search.Issues "is:pr author:user merged:>since" (getPulls)
pullsOf(user, repo) ==
    CASE user = "alice" /\ repo = OrgRepo -> << <<PR(0, 12, 0, OrgRepo)>> >>
      [] user = "bob" /\ repo = OrgLib ->
           << <<PR(1, 4, 3, OrgLib)>>, <<PR(2, 6, 0, OrgLib)>> >>
      [] OTHER -> <<>>

\* Search.Issues "reviewed-by:user is:pr merged:>since" (getReviews)
reviewsOf(user, repo) ==
    CASE user = "bob" /\ repo = OrgRepo -> << <<PR(0, 12, 2, OrgRepo)>> >>
      [] user = "bob" /\ repo = ExtTool -> << <<PR(5, 6, 0, ExtTool)>>, <<PR(7, 8, 0, ExtTool)>> >>
      [] OTHER -> <<>>

----------------------------------------------------------------------------
(* The body of calculateMetrics' loop over the repositories of a user       *)

MetricNames == Collectors \cup {"all"}

\* a collector that the selector leaves out is not called
notCalled(zero, outs) == Ret(zero, 0, 0, FALSE, FALSE, outs)

(* The switch of calculateMetrics for one repository: the selected          *)
(* collectors in source order, each against what the remote has left of     *)
(* its failure script, then updateUserMetrics.  status is "ok", "skipped"   *)
(* (invalid repo string), "fatal" (log.Fatalf) or "panic".                  *)
processRepo(b, sel, m, user, repoFullName, outs) ==
    LET owner == parseRepo(repoFullName)[1]
        repoName == parseRepo(repoFullName)[2]
        on(c) == sel = c \/ sel = "all"
        none == [metrics |-> m, exhausted |-> {}, update |-> ZeroMetrics,
                 requests |-> [c \in Collectors |-> 0]]
    IN IF owner = "" \/ repoName = "" THEN none @@ [status |-> "skipped"]
       ELSE IF sel \notin MetricNames THEN none @@ [status |-> "fatal"]
       ELSE
    Only({ Only({ Only({ Only({ Only({ Only({ Only({
        LET rets == [commits |-> commits, hoc |-> hoc, issues |-> issues, lcp |-> lcp,
                     msgs |-> msgs, pulls |-> pulls, reviews |-> reviews]
            update == [Commits |-> commits.value, HoC |-> hoc.value,
                       Issues |-> issues.value, LcP |-> lcp.value, Msgs |-> msgs.value,
                       Pulls |-> pulls.value, Reviews |-> reviews.value, Score |-> 0,
                       Repos |-> IF b = "part_000" /\ on("hoc")
                                 THEN [k \in {repoFullName} |-> hoc.value] ELSE EmptyMap]
            first == updateUserMetrics(b, entryOf(m, user), update)
            second == IF b = "main.go" /\ sel = "all"
                      THEN updateUserMetrics(b, first,
                               [ZeroMetrics EXCEPT !.Score = calculateScore(first)])
                      ELSE first
            exhausted == {c \in Collectors : rets[c].exhausted}
            requests == [c \in Collectors |-> rets[c].requests]
        IN IF reviews.panicked
           THEN [metrics |-> m, exhausted |-> exhausted, update |-> update,
                 requests |-> requests, status |-> "panic"]
           ELSE [metrics |-> withEntry(m, user, second), exhausted |-> exhausted,
                 update |-> update, requests |-> requests, status |-> "ok"]
      : reviews \in {IF on("reviews")
                     THEN getReviews(reviewsOf(user, repoFullName), pulls.rest)
                     ELSE notCalled(0, pulls.rest)} })
      : pulls \in {IF on("pulls")
                   THEN getPulls(pullsOf(user, repoFullName), msgs.rest)
                   ELSE notCalled(0, msgs.rest)} })
      : msgs \in {IF on("msgs")
                  THEN getMsgs(msgsOf(user, repoFullName), lcp.rest)
                  ELSE notCalled(0, lcp.rest)} })
      : lcp \in {IF on("lcp")
                 THEN getLcP(closedOf(user, repoFullName), issues.rest)
                 ELSE notCalled(FracZero, issues.rest)} })
      : issues \in {IF on("issues")
                    THEN getIssues(issuesOf(user, repoFullName), hoc.rest)
                    ELSE notCalled(0, hoc.rest)} })
      : hoc \in {IF on("hoc")
                 THEN getHoC(user, commitsOf(repoFullName), commits.rest)
                 ELSE notCalled(0, commits.rest)} })
      : commits \in {IF on("commits")
                     THEN getCommits(user, commitsOf(repoFullName), outs)
                     ELSE notCalled(0, outs)} })

----------------------------------------------------------------------------
(* The report                                                               *)

(* sort.Slice with a "greater key first" less function, on a slice as short *)
(* as the ones of this program, is an insertion sort: each element moves    *)
(* left past the elements whose key is strictly smaller.                    *)
RECURSIVE insertDesc_ascending(_, _)
insertDesc_ascending(sorted, x) ==
    Only({
        IF s = <<>> THEN <<x>>
        ELSE LET l == s[Len(s)]
                 front == SubSeq(s, 1, Len(s) - 1)
             IN IF x.key < l.key THEN Append(insertDesc_ascending(front, x), l)
                ELSE Append(s, x)
      : s \in {sorted}})

RECURSIVE insertDesc(_, _)
insertDesc(sorted, x) ==
    Only({
        IF s = <<>> THEN <<x>>
        ELSE LET l == s[Len(s)]
                 front == SubSeq(s, 1, Len(s) - 1)
             IN IF x.key > l.key THEN Append(insertDesc(front, x), l)
                ELSE Append(s, x)
      : s \in {sorted}})

RECURSIVE sortDescFrom(_, _)
sortDescFrom(sorted, list) ==
    Only({
        IF l = <<>> THEN s
        ELSE sortDescFrom(insertDesc(s, Head(l)), Tail(l))
      : s \in {sorted}, l \in {list}})

\* sort.Slice(list, func(i, j) bool { return list[i].key > list[j].key })
sortDesc(list) == sortDescFrom(<<>>, list)

(* A rendered string is the sequence of its pieces.                         *)
\* fmt.Sprintf("%s(%d)", name, hoc); name is the repository's segments
formatRepo(name, hoc) ==
    <<name[1]>> \o Flatten([i \in 1..(Len(name) - 1) |-> <<"/", name[i + 1]>>])
    \o <<"(", ToString(hoc), ")">>

RECURSIVE joinComma(_)
\* strings.Join(entries, ", ")
joinComma(entries) ==
    Only({
        IF e = <<>> THEN <<>>
        ELSE IF Len(e) = 1 THEN Head(e)
        ELSE Head(e) \o <<", ">> \o joinComma(Tail(e))
      : e \in {entries}})

getTopRepos_all(reposMap, order) ==
    Only({
        joinComma([i \in 1..Len(repoList) |->
                      formatRepo(repoList[i].Name, repoList[i].key)])
      : repoList \in {sortDesc([i \in DOMAIN order |->
                                   [Name |-> order[i], key |-> reposMap[order[i]]]])}})

(* getTopRepos: `order` is the order in which the range over the map        *)
(* yields its keys.                                                         *)
getTopRepos(reposMap, order) ==
    Only({
        joinComma([i \in 1..Min(Len(repoList), TopN) |->
                      formatRepo(repoList[i].Name, repoList[i].key)])
      : repoList \in {sortDesc([i \in DOMAIN order |->
                                   [Name |-> order[i], key |-> reposMap[order[i]]]])}})

(* renderTemplate up to the sort: the rows in the order the template        *)
(* ranges over them.  userOrder is the iteration order of the metrics map,  *)
(* repoOrders[u] the one of u's Repos map.  The view of main.go has no      *)
(* TopRepos field.                                                          *)
renderRows(b, m, org, userOrder, repoOrders) ==
    LET views == [i \in DOMAIN userOrder |->
                    [key |-> m[userOrder[i]].Score,
                     User |-> userOrder[i],
                     Metrics |-> m[userOrder[i]],
                     Organization |-> org,
                     TopRepos |-> IF b = "part_000"
                                  THEN getTopRepos(m[userOrder[i]].Repos,
                                                   repoOrders[userOrder[i]])
                                  ELSE <<>>]]
    IN sortDesc(views)

\* the iteration orders the maps of m can be ranged over in
UserOrders(m) == Perms(DOMAIN m)

RepoOrders(m) ==
    {f \in [DOMAIN m -> UNION {Perms(DOMAIN m[u].Repos) : u \in DOMAIN m}] :
        \A u \in DOMAIN m : f[u] \in Perms(DOMAIN m[u].Repos)}

----------------------------------------------------------------------------
(* Spec: one run of the program from the call of calculateMetrics on, for   *)
(* either build, every metric selector (the flag's help text also names     *)
(* "score", which the switch does not know), every coder list of up to      *)
(* MaxUsers names, with and without the organization filter.  The remote    *)
(* answers as defined above, except that up to MaxFaults times in a run it   *)
(* plays a failure script: a request failing Attempts times after some      *)
(* answered invocations, or a transient failure.                            *)

Selectors == MetricNames \cup {"score"}

FaultScripts ==
    {Rep("ok", k) \o Rep("500", Attempts) : k \in 0..MaxOkBefore}
    \cup {<<"403", "noresp">>}

\* what the remote may play during the next step
ScriptsNow == {<<>>} \cup (IF faults < MaxFaults THEN FaultScripts ELSE {})

Init ==
    /\ build \in Builds
    /\ metric \in Selectors
    /\ users \in SeqsUpTo(UserNames, MaxUsers)
    /\ organization \in {"", "org"}
    /\ pc = "discover"
    /\ ui = 1
    /\ repos = <<>>
    /\ ri = 1
    /\ metrics = EmptyMap
    /\ output = <<>>
    /\ writes = 0
    /\ last = [step |-> "init"]
    /\ faults = 0
    /\ fin = <<>>
    /\ fout = <<>>

\* for _, user := range users: repos := getUserRepositories(user)
Discover ==
    /\ pc = "discover"
    /\ ui <= Len(users)
    /\ \E outs \in ScriptsNow :
         LET d == getUserRepositories(searchOf(users[ui]), organization, outs)
         IN /\ \E order \in Perms(d.repos) : repos' = reposList(d.repos, order)
            /\ last' = [step |-> "discover", user |-> users[ui],
                        exhausted |-> d.exhausted]
            /\ faults' = IF outs = <<>> THEN faults ELSE faults + 1
    /\ ri' = 1
    /\ pc' = "repo"
    /\ UNCHANGED <<build, metric, users, organization, ui, metrics, output, writes,
                   fin, fout>>

\* for _, repoFullName := range repos: the switch on the selector
ProcessRepo ==
    /\ pc = "repo"
    /\ ri <= Len(repos)
    /\ \E outs \in ScriptsNow :
         LET p == processRepo(build, metric, metrics, users[ui], repos[ri], outs)
         IN /\ metrics' = p.metrics
            /\ pc' = IF p.status \in {"fatal", "panic"} THEN p.status ELSE "repo"
            /\ last' = [step |-> "repo", user |-> users[ui], repo |-> repos[ri],
                        status |-> p.status, exhausted |-> p.exhausted,
                        requests |-> p.requests, update |-> p.update]
            /\ faults' = IF outs = <<>> THEN faults ELSE faults + 1
    /\ ri' = ri + 1
    /\ UNCHANGED <<build, metric, users, organization, ui, repos, output, writes,
                   fin, fout>>

(* The file system's part in renderTemplate: template.ParseFiles and        *)
(* os.Create succeed ("ok") or one of them fails before the output file is  *)
(* touched ("error").                                                       *)
RenderOutcomes == {"ok", "error"}

\* renderTemplate(metrics); an error is fatal to both of its callers
Rendered(next) ==
    \E fs \in RenderOutcomes :
        IF fs = "ok"
        THEN /\ \E uo \in UserOrders(metrics), ro \in RepoOrders(metrics) :
                   output' = renderRows(build, metrics, organization, uo, ro)
             /\ writes' = writes + 1
             /\ pc' = next
        ELSE /\ pc' = "fatal"
             /\ UNCHANGED <<output, writes>>

\* the end of the loop body for a user: part_000 renders the report here
EndUser ==
    /\ pc = "repo"
    /\ ri > Len(repos)
    /\ IF build = "part_000"
       THEN Rendered("discover")
       ELSE /\ pc' = "discover"
            /\ UNCHANGED <<output, writes>>
    /\ ui' = ui + 1
    /\ last' = [step |-> "enduser", user |-> users[ui]]
    /\ UNCHANGED <<build, metric, users, organization, repos, ri, metrics, faults,
                   fin, fout>>

\* calculateMetrics returns and main renders the report
Render ==
    /\ pc = "discover"
    /\ ui > Len(users)
    /\ Rendered("done")
    /\ last' = [step |-> "render"]
    /\ UNCHANGED <<build, metric, users, organization, ui, repos, ri, metrics, faults,
                   fin, fout>>

Next == Discover \/ ProcessRepo \/ EndUser \/ Render

Spec == Init /\ [][Next]_vars

----------------------------------------------------------------------------
(* Claims about the run                                                     *)

\* calculateMetrics has returned
Returned == (pc = "discover" /\ ui > Len(users)) \/ pc = "done"

WeightedSum(m) ==
    m.HoC + 250 * m.Pulls + 50 * m.Issues + 5 * m.Commits + 150 * m.Reviews + 5 * m.Msgs

\* C1: after calculateMetrics finishes, every accumulator's Score equals
\* HoC + 250*Pulls + 50*Issues + 5*Commits + 150*Reviews + 5*Msgs of its final
\* totals, for every metric selector and every sequence of collector results.
C1_ScoreIsWeightedSum ==
    Returned => \A u \in DOMAIN metrics : metrics[u].Score = WeightedSum(metrics[u])

\* the end-to-end scenario: alice alone, "all" mode, org/repo her only
\* repository, no remote failure, the run finished
AliceScenario ==
    /\ pc = "done"
    /\ users = <<"alice">>
    /\ metric = "all"
    /\ repos = <<OrgRepo>>
    /\ faults = 0

\* C2 (as stated): the scenario ends with Commits=3, HoC=50, Pulls=1,
\* Issues=0, Reviews=0, Msgs=0 and Score=300.
C2_AliceAsStated ==
    AliceScenario =>
        /\ "alice" \in DOMAIN metrics
        /\ metrics["alice"].Commits = 3
        /\ metrics["alice"].HoC = 50
        /\ metrics["alice"].Pulls = 1
        /\ metrics["alice"].Issues = 0
        /\ metrics["alice"].Reviews = 0
        /\ metrics["alice"].Msgs = 0
        /\ metrics["alice"].Score = 300

\* C2 (amended): the scenario ends with Commits=3, HoC=90 (the 40 additions
\* plus the 50 changes), Pulls=1, Issues=0, Reviews=0, Msgs=0 and
\* Score=355 (90 + 250*1 + 5*3).
C2_AliceScenario ==
    AliceScenario =>
        /\ "alice" \in DOMAIN metrics
        /\ metrics["alice"].Commits = 3
        /\ metrics["alice"].HoC = 90
        /\ metrics["alice"].Pulls = 1
        /\ metrics["alice"].Issues = 0
        /\ metrics["alice"].Reviews = 0
        /\ metrics["alice"].Msgs = 0
        /\ metrics["alice"].Score = 355

\* C2 witness: the scenario has run to its end and alice has her row
C2_Witness ==
    /\ AliceScenario
    /\ "alice" \in DOMAIN metrics
    /\ Len(output) = 1
    /\ output[1].User = "alice"

\* C3: when retryWithBackoff exhausts its attempts inside a collector, the run
\* is not aborted: calculateMetrics goes on with the next repository or user.
C3_ExhaustionNotFatal ==
    (last.step = "repo" /\ last.exhausted # {}) => pc = "repo"

\* C6: with a metric selector that is none of the seven names nor "all", the
\* run ends in a fatal error and never writes the output file.
C6_UnknownMetricWritesNothing ==
    (metric \notin MetricNames /\ users # <<>> /\ faults = 0) =>
        (writes = 0 /\ pc # "done")

\* C8: the rendered report has exactly one row per configured user, also for
\* a user for whom discovery returns no repository.
C8_OneRowPerUser ==
    (pc = "done" /\ faults = 0) =>
        \A u \in Range(users) :
            Cardinality({i \in DOMAIN output : output[i].User = u}) = 1

\* C9: in every rendered report the rows are in non-increasing order of Score.
C9_RowsByScore ==
    writes > 0 =>
        \A i \in 1..(Len(output) - 1) :
            output[i].Metrics.Score >= output[i + 1].Metrics.Score

\* C9 witness: a report of two rows with different scores
C9_Witness ==
    /\ writes > 0
    /\ Len(output) = 2
    /\ output[1].User = "bob"
    /\ output[1].Metrics.Score > output[2].Metrics.Score
    /\ output[2].Metrics.Score > 0

----------------------------------------------------------------------------
(* SpecTop: one call of getTopRepos on every per-repository lines map over  *)
(* up to MaxRepos repositories with up to MaxLines lines each, ranged over  *)
(* in every iteration order.                                                *)

NamePool ==
    << <<"org", "a">>, <<"org", "b">>, <<"org", "c">>, <<"ext", "d">>,
       <<"ext", "e">>, <<"ext", "f">> >>

TopNames == {NamePool[i] : i \in 1..Min(MaxRepos, Len(NamePool))}

InitTop ==
    /\ RunIdle
    /\ pc = "call"
    /\ \E names \in SUBSET TopNames :
         \E m \in [names -> 0..MaxLines], order \in Perms(names) :
             fin = [reposMap |-> m, order |-> order]
    /\ fout = <<>>

TopCall ==
    /\ pc = "call"
    /\ fout' = getTopRepos(fin.reposMap, fin.order)
    /\ pc' = "returned"
    /\ UNCHANGED <<runData, fin>>

NextTop == TopCall

SpecTop == InitTop /\ [][NextTop]_vars

(* Reading a rendered top-repositories string back: its entries (the pieces *)
(* between the ", " separators), and of an entry the repository and the     *)
(* number between the parentheses.                                          *)
RECURSIVE splitComma(_, _)
splitComma(str, cur) ==
    IF str = <<>> THEN (IF cur = <<>> THEN <<>> ELSE <<cur>>)
    ELSE IF Head(str) = ", " THEN <<cur>> \o splitComma(Tail(str), <<>>)
    ELSE splitComma(Tail(str), Append(cur, Head(str)))

EntriesOf(str) == splitComma(str, <<>>)

EntryName(e) ==
    LET upto == CHOOSE k \in DOMAIN e : e[k] = "(" /\ \A j \in 1..(k - 1) : e[j] # "("
    IN [i \in 1..(upto \div 2) |-> e[2 * i - 1]]

EntryLines(e) == CHOOSE n \in 0..(MaxLines + 1) : ToString(n) = e[Len(e) - 1]

\* C10: getTopRepos returns at most 3 entries, in non-increasing order of
\* lines; every entry is a repository of the map with its lines; no omitted
\* repository has more lines than a listed one; the empty map gives "".
C10_TopRepos ==
    pc = "returned" =>
        LET es == EntriesOf(fout)
            listed == {EntryName(es[i]) : i \in DOMAIN es}
        IN /\ Len(es) <= 3
           /\ \A i \in DOMAIN es :
                 /\ EntryName(es[i]) \in DOMAIN fin.reposMap
                 /\ EntryLines(es[i]) = fin.reposMap[EntryName(es[i])]
                 /\ es[i][Len(es[i])] = ")"
           /\ \A i, j \in DOMAIN es : i < j => EntryLines(es[i]) >= EntryLines(es[j])
           /\ Cardinality(listed) = Len(es)
           /\ \A r \in DOMAIN fin.reposMap \ listed :
                 \A l \in listed : fin.reposMap[r] <= fin.reposMap[l]
           /\ DOMAIN fin.reposMap = {} => fout = <<>>
           /\ DOMAIN fin.reposMap # {} => es # <<>>

\* C10 witness: four repositories with different lines, the largest last in
\* iteration order, cut to the three largest
C10_Witness ==
    /\ pc = "returned"
    /\ Cardinality(DOMAIN fin.reposMap) = 4
    /\ fin.reposMap[fin.order[4]] = 2
    /\ fin.reposMap[fin.order[1]] = 0
    /\ fin.reposMap[fin.order[2]] = 1
    /\ Len(EntriesOf(fout)) = 3
    /\ EntryName(EntriesOf(fout)[1]) = fin.order[4]

----------------------------------------------------------------------------
(* SpecDiscover: one call of getUserRepositories against every combination  *)
(* of authored, commented-on and reviewed results of up to MaxSearchPages   *)
(* pages each, with and without an organization filter, and with some       *)
(* request failing after all retries or none.                               *)

MaxSearchPages == 2

SearchPageChoices ==
    { << Issue(TRUE, 0, NilTime, 0, RepoURL("org", "repo")),
         Issue(FALSE, 0, NilTime, 0, RepoURL("org", "docs")),
         Issue(TRUE, 0, NilTime, 0, RepoURL("ext", "tool")),
         Issue(TRUE, 0, NilTime, 0, <<"repo">>) >>,
      << Issue(TRUE, 0, NilTime, 0, RepoURL("org", "lib")),
         Issue(TRUE, 0, NilTime, 0, RepoURL("org", "repo")),
         Issue(TRUE, 0, NilTime, 0, RepoURL("org", "lib")) >> }

DiscoverScripts ==
    { <<>>, Rep("403", Attempts), <<"ok">> \o Rep("500", Attempts),
      <<"ok", "ok", "noresp", "403">> \o Rep("noresp", Attempts) }

InitDiscover ==
    /\ RunIdle
    /\ pc = "call"
    /\ fin \in [q : [authored : SeqsUpTo(SearchPageChoices, MaxSearchPages),
                     commented : SeqsUpTo(SearchPageChoices, MaxSearchPages),
                     reviewed : SeqsUpTo(SearchPageChoices, MaxSearchPages)],
                org : {"", "org"},
                outs : DiscoverScripts]
    /\ fout = <<>>

DiscoverCall ==
    /\ pc = "call"
    /\ \E d \in {getUserRepositories(fin.q, fin.org, fin.outs)} :
         \E order \in Perms(d.repos) :
            fout' = [list |-> reposList(d.repos, order), exhausted |-> d.exhausted]
    /\ pc' = "returned"
    /\ UNCHANGED <<runData, fin>>

NextDiscover == DiscoverCall

SpecDiscover == InitDiscover /\ [][NextDiscover]_vars

\* the identifiers of the pull-request results of a query's pages that pass
\* the organization filter
HitsOf(pages) ==
    {parseRepoURL(it.url) :
        it \in {x \in Range(Flatten(pages)) :
                   /\ x.pr
                   /\ Len(x.url) >= 2
                   /\ (fin.org = "" \/ x.url[Len(x.url) - 1] = fin.org)}}

AllHits == HitsOf(fin.q.authored) \cup HitsOf(fin.q.commented) \cup HitsOf(fin.q.reviewed)

\* the identifiers in the results of at least two of the three queries
InSeveralQueries ==
    (HitsOf(fin.q.authored) \cap HitsOf(fin.q.commented))
    \cup (HitsOf(fin.q.authored) \cap HitsOf(fin.q.reviewed))
    \cup (HitsOf(fin.q.commented) \cap HitsOf(fin.q.reviewed))

PullRequestReposOf(pages) ==
    {parseRepoURL(it.url) :
        it \in {x \in Range(Flatten(pages)) : x.pr /\ Len(x.url) >= 2}}

\* C12: with an organization filter configured, every returned identifier has
\* that organization as its owner segment, whatever mixture of matching and
\* non-matching results the three queries hold; with no organization
\* configured, no result that has a repository identifier is left out because
\* of its owner.
C12_OrganizationFilter ==
    pc = "returned" =>
        /\ fin.org # "" =>
              \A i \in DOMAIN fout.list :
                  Len(fout.list[i]) = 2 /\ fout.list[i][1] = fin.org
        /\ (fin.org = "" /\ ~fout.exhausted) =>
              PullRequestReposOf(fin.q.authored) \cup PullRequestReposOf(fin.q.commented)
                  \subseteq Range(fout.list)

\* C12 witness: results inside and outside the organization, filter configured,
\* and the ones inside are returned
C12_Witness ==
    /\ pc = "returned"
    /\ fin.org = "org"
    /\ <<"ext", "tool">> \in PullRequestReposOf(fin.q.authored)
    /\ <<"ext", "tool">> \in PullRequestReposOf(fin.q.reviewed)
    /\ Range(fout.list) = {<<"org", "repo">>, <<"org", "lib">>}

----------------------------------------------------------------------------
(* Aggregation over the repositories of a user                              *)

(* The loop of calculateMetrics over the repositories of `user`, taken in   *)
(* the order `order` from the accumulator map m on, every request answered. *)
RECURSIVE aggregate(_, _, _, _, _)
aggregate(b, sel, m, user, order) ==
    Only({
        IF order = <<>> THEN acc
        ELSE aggregate(b, sel, processRepo(b, sel, acc, user, Head(order), <<>>).metrics,
                       user, Tail(order))
      : acc \in {m}})

\* the fields of an accumulator that the aggregation claims are about
Totals(um) ==
    [Commits |-> um.Commits, HoC |-> um.HoC, Issues |-> um.Issues, Msgs |-> um.Msgs,
     Pulls |-> um.Pulls, Reviews |-> um.Reviews, Score |-> um.Score,
     Repos |-> um.Repos]

\* the loop over the repositories of the first user has ended, undisturbed
FirstUserDone ==
    /\ pc = "repo"
    /\ ui = 1
    /\ ri > Len(repos)
    /\ faults = 0
    /\ metric \in MetricNames

\* C13: aggregation is order-independent: whatever order the discovered
\* repositories of a user are processed in, with the same per-repository
\* collector results, the user's final accumulator (the six counts, Score and
\* the per-repository map) is the same.
C13_OrderIndependent ==
    FirstUserDone =>
        \A order \in Perms(Range(repos)) :
            Totals(entryOf(aggregate(build, metric, EmptyMap, users[1], order), users[1]))
                = Totals(entryOf(metrics, users[1]))

\* what the remote holds for the query collector c makes for user and repo
queryOf(c, user, repo) ==
    CASE c \in {"commits", "hoc"} -> commitsOf(repo)
      [] c = "issues" -> issuesOf(user, repo)
      [] c = "lcp" -> closedOf(user, repo)
      [] c = "msgs" -> msgsOf(user, repo)
      [] c = "pulls" -> pullsOf(user, repo)
      [] c = "reviews" -> reviewsOf(user, repo)

\* the sum of what collector c returns for the first n repositories of the user
RECURSIVE ReturnedSum(_, _, _)
ReturnedSum(c, user, n) ==
    IF n = 0 THEN 0
    ELSE ReturnedSum(c, user, n - 1)
         + collect(c, user, queryOf(c, user, repos[n]), <<>>).value

CountOf(um, c) ==
    CASE c = "commits" -> um.Commits
      [] c = "hoc" -> um.HoC
      [] c = "issues" -> um.Issues
      [] c = "msgs" -> um.Msgs
      [] c = "pulls" -> um.Pulls
      [] c = "reviews" -> um.Reviews

\* C14: each of Commits, HoC, Issues, Msgs, Pulls and Reviews of a user's
\* accumulator is the sum, over the repositories processed for the user, of
\* what the corresponding collector returned if that metric is selected, and 0
\* if it is not.
C14_CountsAreSums ==
    (pc = "repo" /\ ui = 1 /\ faults = 0 /\ metric \in MetricNames) =>
        \A c \in Collectors \ {"lcp"} :
            CountOf(entryOf(metrics, users[1]), c)
                = IF metric = c \/ metric = "all"
                  THEN ReturnedSum(c, users[1], ri - 1)
                  ELSE 0

\* C14 witness: a single-metric run has processed two repositories of a user,
\* the selected count is their sum and positive
C14_Witness ==
    /\ pc = "repo"
    /\ ui = 1
    /\ faults = 0
    /\ metric = "msgs"
    /\ ri = 3
    /\ getMsgs(msgsOf(users[1], repos[1]), <<>>).value > 0
    /\ getMsgs(msgsOf(users[1], repos[2]), <<>>).value > 0
    /\ metrics[users[1]].Msgs = ReturnedSum("msgs", users[1], 2)
    /\ metrics[users[1]].Commits = 0

----------------------------------------------------------------------------
(* SpecConfig: main from the definition of the flags to the call of         *)
(* calculateMetrics, in both builds, for every command line of up to        *)
(* MaxArgs options and every config file of up to MaxFileLines lines.       *)
(* fin holds the command line and the file, fout the flag variables.        *)

MaxArgs == 2
MaxFileLines == 2

\* default of the -delay flag, in seconds
DefaultDelay == 30

Opt(key, value) == [key |-> key, value |-> value]

\* "--key=value" lines of the file, "-key=value" arguments of the command line
Assignments ==
    { Opt("metric", "commits"), Opt("metric", "hoc"), Opt("delay", "5"),
      Opt("organization", "org"), Opt("coder", "alice"), Opt("coder", "bob"),
      Opt("repo", "org/repo") }

ListOptions == {"coder", "repo"}

\* the flag variables after the flag.XxxVar definitions
flagDefaults ==
    [metric |-> "all", delay |-> DefaultDelay, organization |-> "", coder |-> <<>>,
     repo |-> <<>>]

\* strconv of the decimal numerals that occur as values
atoi(str) == CASE str = "5" -> 5 [] str = "30" -> 30 [] str = "60" -> 60

\* Set of a flag with a -repo value appended to the coders
setFlag_repoIntoCoders(flags, a) ==
    IF a.key \in {"coder", "repo"}
    THEN [flags EXCEPT !.coder = Append(@, a.value),
                       !.repo = IF a.key = "repo" THEN Append(@, a.value) ELSE @]
    ELSE IF a.key = "delay"
         THEN [flags EXCEPT ![a.key] = atoi(a.value)]
         ELSE [flags EXCEPT ![a.key] = a.value]

\* Set of a flag: coderList.Set and repoList.Set append, an int flag assigns
\* the number the value denotes, a string flag the value
setFlag(flags, a) ==
    IF a.key \in ListOptions
    THEN [flags EXCEPT ![a.key] = Append(@, a.value)]
    ELSE IF a.key = "delay"
         THEN [flags EXCEPT ![a.key] = atoi(a.value)]
         ELSE [flags EXCEPT ![a.key] = a.value]

\* flag.Parse(): Set for every option of the command line, in order
RECURSIVE flagParse(_, _)
flagParse(flags, args) ==
    Only({
        IF args = <<>> THEN f ELSE flagParse(setFlag(f, Head(args)), Tail(args))
      : f \in {flags}})

\* the scanner loop over the lines of the config file
RECURSIVE readConfig(_, _)
readConfig(flags, lines) ==
    Only({
        IF lines = <<>> THEN f ELSE readConfig(setFlag(f, Head(lines)), Tail(lines))
      : f \in {flags}})

InitConfig ==
    /\ build \in Builds
    /\ metric = "all"
    /\ users = <<>>
    /\ organization = ""
    /\ ui = 0
    /\ repos = <<>>
    /\ ri = 0
    /\ metrics = <<>>
    /\ output = <<>>
    /\ writes = 0
    /\ last = <<>>
    /\ faults = 0
    /\ fin \in [args : SeqsUpTo(Assignments, MaxArgs),
                file : SeqsUpTo(Assignments, MaxFileLines)]
    /\ fout = flagDefaults
    /\ pc = IF build = "part_000" THEN "parse" ELSE "file"

\* part_000 only: flag.Parse() before the config file is looked at
ParseFirst ==
    /\ pc = "parse"
    /\ fout' = flagParse(fout, fin.args)
    /\ pc' = "file"
    /\ UNCHANGED <<runData, fin>>

ReadConfigFile ==
    /\ pc = "file"
    /\ fout' = readConfig(fout, fin.file)
    /\ pc' = "parseAgain"
    /\ UNCHANGED <<runData, fin>>

\* "Parse command-line flags": flag.Parse() after the config file
ParseFlags ==
    /\ pc = "parseAgain"
    /\ fout' = flagParse(fout, fin.args)
    /\ pc' = "check"
    /\ UNCHANGED <<runData, fin>>

\* log.Fatal without repositories and organization, else calculateMetrics
StartOrFatal ==
    /\ pc = "check"
    /\ pc' = IF Len(fout.repo) = 0 /\ fout.organization = "" THEN "fatal" ELSE "start"
    /\ UNCHANGED <<runData, fin, fout>>

NextConfig == ParseFirst \/ ReadConfigFile \/ ParseFlags \/ StartOrFatal

SpecConfig == InitConfig /\ [][NextConfig]_vars

KeysOf(as) == {as[i].key : i \in DOMAIN as}

\* the values an option is given by a sequence of assignments, in order
RECURSIVE ValuesOf(_, _)
ValuesOf(as, key) ==
    IF as = <<>> THEN <<>>
    ELSE (IF Head(as).key = key THEN <<Head(as).value>> ELSE <<>>)
         \o ValuesOf(Tail(as), key)

\* the value a sequence of assignments gives an option it names
GivenValue(as, key) ==
    LET given == ValuesOf(as, key)
    IN IF key \in ListOptions THEN given
       ELSE IF key = "delay" THEN atoi(given[Len(given)])
       ELSE given[Len(given)]

\* C15: for every option present both on the command line and in the config
\* file, the value in effect when calculateMetrics starts is the command-line
\* value.
C15_CommandLineWins ==
    pc = "start" =>
        \A key \in KeysOf(fin.args) \cap KeysOf(fin.file) :
            fout[key] = GivenValue(fin.args, key)

----------------------------------------------------------------------------
(* Claims about the sleeps of retryWithBackoff.  A sleep event of the trace *)
(* stands for time.Sleep(time.Until(reset) + buffer), reset being the       *)
(* rate-limit reset time of the response of invocation n.                   *)

SleepsOf(trace) == {i \in DOMAIN trace : trace[i].ev = "sleep"}

\* C16: after an attempt that failed with a rate-limit response,
\* retryWithBackoff sleeps for (reset time - now) plus the configured delay
\* (the -delay setting), so the buffer added to the time until the reset is the
\* configured delay.
C16_SleepUsesConfiguredDelay ==
    pc = "returned" =>
        \A i \in SleepsOf(fout.trace) : fout.trace[i].buffer = fin.delay

\* the script starts with k rate-limit failures and then lets the operation
\* succeed
RateLimitedThenOk(outs, k) ==
    /\ k <= Len(outs)
    /\ \A j \in 1..k : outs[j] = "403"
    /\ k < Len(outs) => outs[k + 1] = "ok"

\* C17 (as stated): if the remote answers with rate-limit (403) failures on
\* its first k attempts and succeeds on the following one, retryWithBackoff
\* returns that success to the caller, for every k >= 0.
C17_AnyNumberOfPauses ==
    pc = "returned" =>
        \A k \in 0..Len(fin.outs) :
            RateLimitedThenOk(fin.outs, k) => fout.ok /\ fout.calls = k + 1

\* C17 (amended): if the remote answers with rate-limit (403) failures on its
\* first k attempts and succeeds on the following one, then for k <= 4
\* retryWithBackoff pauses k times and returns that success to the caller,
\* and for k >= 5 it returns the error of the fifth attempt after five pauses
\* and never makes the attempt that would succeed.
C17_RateLimitPause ==
    pc = "returned" =>
        \A k \in 0..Len(fin.outs) :
            RateLimitedThenOk(fin.outs, k) =>
                /\ k <= 4 => /\ fout.ok /\ fout.result = "value" /\ fout.err = 0
                             /\ fout.calls = k + 1
                             /\ Cardinality(SleepsOf(fout.trace)) = k
                /\ k >= 5 => /\ ~fout.ok /\ fout.err = 5
                             /\ fout.calls = 5
                             /\ Cardinality(SleepsOf(fout.trace)) = 5

\* C17 witness: four rate-limit failures, then the success is returned
C17_Witness ==
    /\ pc = "returned"
    /\ fin.outs = <<"403", "403", "403", "403", "ok", "500">>
    /\ fout.ok
    /\ fout.calls = 5
    /\ fout.rest = <<"500">>

\* C18: retryWithBackoff sleeps only between attempts: every sleep directly
\* follows a failed attempt whose response has status 403 and is directly
\* followed by another invocation of the operation; a failure without a
\* rate-limit signal (no response, or another status) is followed by the next
\* attempt with no sleep.
C18_SleepsOnlyBetweenAttempts ==
    pc = "returned" =>
        LET trace == fout.trace IN
        /\ \A i \in SleepsOf(trace) :
              /\ i > 1 /\ trace[i - 1].ev = "call" /\ trace[i - 1].kind = "403"
              /\ i < Len(trace) /\ trace[i + 1].ev = "call"
        /\ \A i \in DOMAIN trace :
              (trace[i].ev = "call" /\ trace[i].kind \in {"500", "noresp"} /\ i < Len(trace))
                  => trace[i + 1].ev = "call"

\* C19: each of the three discovery queries is paginated from its first page
\* to its last: when no request fails, getUserRepositories returns the
\* repository of every pull-request result on every page of the authored,
\* commented-on and reviewed queries that passes the organization filter,
\* whatever the page counts of the other two queries.
C19_EveryPageOfEveryQuery ==
    (pc = "returned" /\ ~fout.exhausted) => AllHits \subseteq Range(fout.list)

----------------------------------------------------------------------------
(* A page request failing after all retries, in a run                       *)

\* the collectors that the claim says return the count of the pages fetched
PartialCollectors == {"commits", "hoc", "issues", "msgs", "pulls"}

\* the last step processed a repository and collector c gave up on a page
GaveUp(c) ==
    /\ last.step = "repo"
    /\ last.status # "skipped"
    /\ c \in last.exhausted

\* the pages collector c was answered before it gave up, in the last step
PagesBeforeFailure(c) ==
    SubSeq(queryOf(c, last.user, last.repo), 1, last.requests[c] - 1)

\* C20: when a page request fails after all retries, getCommits, getHoC,
\* getIssues, getMsgs and getPulls return the count accumulated from the pages
\* already fetched, getLcP returns 0 whatever the pages already fetched hold,
\* and in both cases calculateMetrics adds the returned value to the user's
\* totals and goes on with the next repository.
C20_PartialOnExhaustion ==
    \A c \in PartialCollectors \cup {"lcp"} :
        GaveUp(c) =>
            /\ c \in PartialCollectors =>
                  CountOf(last.update, c)
                      = collect(c, last.user, PagesBeforeFailure(c), <<>>).value
            /\ c = "lcp" => last.update.LcP = FracZero
            /\ last.status = "ok" /\ pc = "repo"
            /\ (ui = 1 /\ faults = 1 /\ c \in PartialCollectors) =>
                  CountOf(metrics[last.user], c)
                      = ReturnedSum(c, last.user, ri - 2) + CountOf(last.update, c)

\* C20 witness: the second page request of getCommits failed after all
\* retries, the commits of the first page were counted and the run goes on
C20_Witness ==
    /\ GaveUp("commits")
    /\ last.requests["commits"] = 2
    /\ last.update.Commits > 0
    /\ metrics[last.user].Commits = last.update.Commits
    /\ pc = "repo"

\* getLcP gave up on its second page with closed issues on the first
C20_WitnessLcP ==
    /\ GaveUp("lcp")
    /\ last.requests["lcp"] = 2
    /\ getLcP(PagesBeforeFailure("lcp"), <<>>).value # FracZero
    /\ last.update.LcP = FracZero
    /\ pc = "repo"

----------------------------------------------------------------------------
(* Termination.  The program is one goroutine that runs without waiting for *)
(* anything but the remote's answers and the rate-limit sleeps, which are   *)
(* finite: a step that can be taken is taken.                               *)

SpecLive == Spec /\ WF_vars(Next)

\* C21: every run terminates: with a selector the switch knows and endpoints
\* that report a last page, calculateMetrics eventually returns for every
\* user list and the report is rendered (or writing it fails), also when page
\* requests fail after the attempt ceiling.
C21_RunTerminates ==
    (metric \in MetricNames) => <>(pc = "done" \/ pc = "fatal")

----------------------------------------------------------------------------
(* The per-commit detail request of getHoC                                  *)

(* How many times in a row the detail request of a commit fails before the  *)
(* remote answers it: a commit's detailErr is a transient failure, the      *)
(* request fails when it is first made and would be answered when repeated. *)
DetailFailures(commit) == IF commit.detailErr THEN 1 ELSE 0

\* C22: a transient failure of the per-commit detail request of getHoC is
\* retried like every other remote call, up to the attempt ceiling; a commit's
\* lines are dropped only when its detail request fails that many times, and
\* the remaining commits and pages are still processed.
C22_DetailRequestRetried ==
    (pc = "returned" /\ fin.c = "hoc" /\ ~fout.exhausted) =>
        LET items == FetchedItems
            mine == {i \in DOMAIN items :
                        items[i].author = fin.user /\ items[i].parents <= 1}
        IN fout.value = SumSeq([i \in DOMAIN items |->
                            IF i \in mine /\ DetailFailures(items[i]) < Attempts
                            THEN LinesOf(items[i]) ELSE 0])

----------------------------------------------------------------------------
(* The per-repository lines map of part_000's accumulator                   *)

RECURSIVE SumOver(_, _)
SumOver(f, keys) ==
    IF keys = {} THEN 0
    ELSE LET k == CHOOSE x \in keys : TRUE
         IN f[k] + SumOver(f, keys \ {k})

\* what discovery returns for a user when every request is answered
Discoverable(user) == getUserRepositories(searchOf(user), organization, <<>>).repos

\* C23: in the build whose accumulator has the per-repository lines map, for
\* every user and after every aggregation step the values of the map sum up to
\* the accumulator's HoC and the map's keys are among the repositories
\* processed for the user, in "hoc" and in "all" mode; in the other modes the
\* map is empty and HoC is 0.
C23_ReposSumIsHoC ==
    build = "part_000" =>
        \A u \in DOMAIN metrics :
            /\ SumOver(metrics[u].Repos, DOMAIN metrics[u].Repos) = metrics[u].HoC
            /\ DOMAIN metrics[u].Repos \subseteq Discoverable(u)
            /\ (pc = "repo" /\ ui = 1 /\ u = users[1]) =>
                  DOMAIN metrics[u].Repos \subseteq Range(SubSeq(repos, 1, ri - 1))
            /\ metric \notin {"hoc", "all"} =>
                  metrics[u].Repos = EmptyMap /\ metrics[u].HoC = 0

\* C23 witness: two repositories of a user aggregated in "all" mode, one of
\* them with lines of the user, both in the map
C23_Witness ==
    /\ build = "part_000"
    /\ metric = "all"
    /\ pc = "repo"
    /\ ri = 3
    /\ DOMAIN metrics[users[ui]].Repos = {repos[1], repos[2]}
    /\ metrics[users[ui]].HoC > 0

----------------------------------------------------------------------------
(* The user list handed to calculateMetrics                                 *)

\* a slice holding the keys of a discovery result in one of the orders the
\* range over the map can yield
SomeOrder(reposMap) == CHOOSE order \in Perms(reposMap) : TRUE

(* calculateMetrics(coders, sel) with every request answered: the loop over *)
(* the users from the accumulator map m on.                                 *)
RECURSIVE calculateMetrics(_, _, _, _, _)
calculateMetrics(b, sel, org, coders, m) ==
    Only({
        IF coders = <<>> THEN acc
        ELSE LET user == Head(coders)
                 found == getUserRepositories(searchOf(user), org, <<>>).repos
             IN calculateMetrics(b, sel, org, Tail(coders),
                    aggregate(b, sel, acc, user, reposList(found, SomeOrder(found))))
      : acc \in {m}})

Occurrences(seq, x) == Cardinality({i \in DOMAIN seq : seq[i] = x})

\* the usernames supplied exactly once, on the command line or in the file
SuppliedOnce ==
    {name \in UserNames :
        Occurrences(ValuesOf(fin.args, "coder"), name)
            + Occurrences(ValuesOf(fin.file, "coder"), name) = 1}

\* C24: a username supplied once is aggregated once: the user list handed to
\* calculateMetrics holds it a single time, and the user's final totals are
\* those of one pass over the user's discovered repositories.
C24_SuppliedOnceAggregatedOnce ==
    pc = "start" =>
        \A name \in SuppliedOnce :
            /\ Occurrences(fout.coder, name) = 1
            /\ Totals(entryOf(calculateMetrics(build, fout.metric, fout.organization,
                                               fout.coder, EmptyMap), name))
                 = Totals(entryOf(calculateMetrics(build, fout.metric, fout.organization,
                                                   <<name>>, EmptyMap), name))

----------------------------------------------------------------------------
(* Two runs that differ in the explicit repository list                     *)

\* the flag variables main ends up with for a command line and a config file
mainFlags(b, args, file) ==
    IF b = "part_000"
    THEN flagParse(readConfig(flagParse(flagDefaults, args), file), args)
    ELSE flagParse(readConfig(flagDefaults, file), args)

\* values of -repo in the other run
OtherRepos == {"org/repo", "ext/tool", "nobody/nothing"}

\* the sequences that differ from `as` only in the values of its -repo options
RepoVariants(as) ==
    {v \in [DOMAIN as -> Assignments \cup {Opt("repo", r) : r \in OtherRepos}] :
        \A i \in DOMAIN as :
            IF as[i].key = "repo" THEN v[i].key = "repo" ELSE v[i] = as[i]}

\* the inputs of the runs that differ from this one only in the contents of
\* the repository list: other values, or one more repository
OtherRuns ==
    {[args |-> a, file |-> f] : a \in RepoVariants(fin.args), f \in RepoVariants(fin.file)}
    \cup {[args |-> Append(fin.args, Opt("repo", r)), file |-> fin.file] : r \in OtherRepos}

WithoutRepos(flags) ==
    [metric |-> flags.metric, delay |-> flags.delay,
     organization |-> flags.organization, coder |-> flags.coder]

====
